---------------------------- MODULE Spec2Model ----------------------------
(***************************************************************************)
(* Model of the mind-map layout and collapse engine of src/src/App.jsx:    *)
(* MindMapRenderer (collapsed state, seeding effect, handleToggle, the     *)
(* memoized calculateLayout) and the pure functions it is built from, and   *)
(* of the retry loop of fetchGeminiProxy.                                  *)
(*                                                                         *)
(* JavaScript objects are modelled as functions from field names to        *)
(* values, living in an object store (a sequence: an address is an index,  *)
(* allocation is Append), so that copying and in-place assignment are      *)
(* different things.  A label is modelled by its length, the only thing    *)
(* the code reads of it.                                                   *)
(***************************************************************************)
EXTENDS Integers, Sequences, FiniteSets

VARIABLES
  heap,       \* the caller's tree objects (activeMindMap), address 1 the root
  data,       \* the data prop: address of the root, or Null
  collapsed,  \* useState: the collapsed set of node ids
  fresh,      \* TRUE when collapsed is another Set object than the one memo was computed with
  memo,       \* useMemo: the last value calculateLayout returned, or NoLayout
  phase,      \* where the component (or the function call) stands
  arg,        \* function-level specifications: the id passed to handleToggle
  before,     \* history: collapsed set and layout before the operation under study
  clean,      \* history: TRUE while no toggle has happened since the tree was loaded
  call        \* fetchGeminiProxy: the locals of the call in progress, or NoCall

vars == <<heap, data, collapsed, fresh, memo, phase, arg, before, clean, call>>

----------------------------------------------------------------------------
(* Bounds of the model *)

\* largest number of nodes of a tree given to calculateLayout
MaxNodes == 6

\* largest number of nodes of a tree loaded into MindMapRenderer
MaxLoadNodes == 4

\* largest number of children of the root of a wide tree given to
\* calculateLayout (six leaves are what it takes to pass the least canvas
\* height)
MaxFanout == 6

\* half of the longest label MindMapNode is given
MaxHalfLabel == 25

(* Program constants *)
X_GAP == 300
Y_GAP == 80
X_OFFSET == 100
Y_OFFSET == 50
MinWidth == 140
Padding == 30
MinCanvasWidth == 800
MinCanvasHeight == 600
CanvasMargin == 200
DefaultHalfWidth == 70
NodeMinWidth == 140
NodePadding == 30

\* JavaScript null (an address no object lives at)
Null == 0

NoLayout == [status |-> "none"]

\* no call of fetchGeminiProxy is in progress
NoCall == [pc |-> "none"]

----------------------------------------------------------------------------
(* Input trees.  Ids are unique (spec 3); the code only compares ids for   *)
(* equality, so nodes are named 1..n in depth-first pre-order: the parent  *)
(* of node i is node i-1 or one of its ancestors.                          *)

Range(s) == {s[i] : i \in DOMAIN s}

RECURSIVE AncestorsOrSelf(_, _)
AncestorsOrSelf(par, i) ==
  IF i = 1 THEN {1} ELSE {i} \cup AncestorsOrSelf(par, par[i])

Shapes(n) ==
  {par \in [2..n -> 1..n] :
     \A i \in 2..n : par[i] < i /\ par[i] \in AncestorsOrSelf(par, i - 1)}

\* label lengths are multiples of 4, so that length * 7.5 and width / 2
\* are integers and the model's arithmetic is the code's
LabelLens == <<0, 16, 40>>

LabelProfiles == {0, 1}

LabelOf(k, i) == LabelLens[((i + k) % Len(LabelLens)) + 1]

TypeOf(k, i) ==
  IF i = 1 THEN (IF k = 0 THEN "root" ELSE "code")
  ELSE IF (i + k) % 2 = 0 THEN "code" ELSE "child"

RECURSIVE SortedSeq(_)
SortedSeq(S) ==
  IF S = {} THEN <<>>
  ELSE LET m == CHOOSE x \in S : \A y \in S : x <= y
       IN <<m>> \o SortedSeq(S \ {m})

\* the object graph the caller holds for a tree of n nodes
TreeHeap(n, par, k) ==
  [i \in 1..n |->
     [id |-> i, label |-> LabelOf(k, i), type |-> TypeOf(k, i),
      children |-> SortedSeq({c \in 2..n : par[c] = i})]]

TreesUpTo(m) ==
  UNION {{TreeHeap(n, par, k) : par \in Shapes(n), k \in LabelProfiles} :
           n \in 1..m}

\* wide trees: a root and up to m children, all leaves, or all leaves but
\* the first, which has one child
WideTrees(m) ==
  UNION {{TreeHeap(n + 1, [i \in 2..(n + 1) |-> 1], k),
          TreeHeap(n + 2, [i \in 2..(n + 2) |-> IF i = 3 THEN 2 ELSE 1], k)} :
           n \in 1..m, k \in LabelProfiles}

\* the trees calculateLayout is given
Trees == TreesUpTo(MaxNodes) \cup WideTrees(MaxFanout)

\* the trees the component is given
LoadTrees == TreesUpTo(MaxLoadNodes)

\* one id no tree of the model uses
UnknownId == MaxNodes + MaxFanout + 2

AllIds == 1..UnknownId

----------------------------------------------------------------------------
(* Objects *)

HasField(obj, f) == f \in DOMAIN obj

\* obj.f = v
SetField(obj, f, v) ==
  [g \in DOMAIN obj \cup {f} |-> IF g = f THEN v ELSE obj[g]]

\* node.children && node.children.length > 0
hasChildren(obj) == HasField(obj, "children") /\ Len(obj.children) > 0

----------------------------------------------------------------------------
(* calculateLayout(root, collapsedSet) *)

RECURSIVE JSONClone(_, _)
RECURSIVE JSONCloneAll(_, _, _)

\* the children array of a node, cloned left to right
JSONCloneAll(h, kids, acc) ==
  IF kids = <<>> THEN [heap |-> h, addrs |-> acc]
  ELSE LET r == JSONClone(h, Head(kids))
       IN JSONCloneAll(r.heap, Tail(kids), Append(acc, r.addr))

\* JSON.parse(JSON.stringify(node)): a new object for every node, holding
\* every field of the original; null stays null
JSONClone(h, a) ==
  IF a = Null THEN [heap |-> h, addr |-> Null]
  ELSE LET r == JSONCloneAll(h, h[a].children, <<>>)
           obj == SetField(h[a], "children", r.addrs)
       IN [heap |-> Append(r.heap, obj), addr |-> Len(r.heap) + 1]

RECURSIVE assignCoords(_, _, _, _, _)
RECURSIVE assignCoordsAll(_, _, _, _, _, _)

RECURSIVE assignCoordsAll_resetLeafY(_, _, _, _, _, _)
\* the map over the children with a defect: currentLeafY is handed to each
\* child by value, so that every child starts at the same leaf slot
assignCoordsAll_resetLeafY(h, leafY, kids, depth, collapsedSet, acc) ==
  IF kids = <<>> THEN [heap |-> h, leafY |-> leafY + 1, addrs |-> acc]
  ELSE LET r == assignCoords(h, leafY, Head(kids), depth, collapsedSet)
       IN assignCoordsAll_resetLeafY(r.heap, leafY, Tail(kids), depth,
                                     collapsedSet, Append(acc, r.addr))

\* processedNode.children.map(child => assignCoords(child, depth + 1))
assignCoordsAll(h, leafY, kids, depth, collapsedSet, acc) ==
  IF kids = <<>> THEN [heap |-> h, leafY |-> leafY, addrs |-> acc]
  ELSE LET r == assignCoords(h, leafY, Head(kids), depth, collapsedSet)
       IN assignCoordsAll(r.heap, r.leafY, Tail(kids), depth, collapsedSet,
                          Append(acc, r.addr))

RECURSIVE sumY(_, _, _)
sumY(h, kids, i) == IF i > Len(kids) THEN 0 ELSE h[kids[i]].y + sumY(h, kids, i + 1)

\* assignCoords with a defect: the collapsed set is not consulted
assignCoords_ignoreCollapsed(h, leafY, a, depth, collapsedSet) ==
  LET isCollapsed == FALSE
      p == Len(h) + 1
      h1 == Append(h, SetField(SetField(h[a], "depth", depth),
                               "isCollapsed", isCollapsed))
  IN IF isCollapsed \/ ~hasChildren(h1[p])
     THEN [heap |-> [h1 EXCEPT ![p] =
                       SetField(SetField(h1[p], "x", depth * X_GAP + X_OFFSET),
                                "y", leafY * Y_GAP + Y_OFFSET)],
           leafY |-> leafY + 1,
           addr |-> p]
     ELSE LET r == assignCoordsAll(h1, leafY, h1[p].children, depth + 1,
                                   collapsedSet, <<>>)
              h2 == [r.heap EXCEPT ![p] = SetField(r.heap[p], "children", r.addrs)]
              firstChildY == h2[h2[p].children[1]].y
              lastChildY == h2[h2[p].children[Len(h2[p].children)]].y
          IN [heap |-> [h2 EXCEPT ![p] =
                          SetField(SetField(h2[p], "x", depth * X_GAP + X_OFFSET),
                                   "y", (firstChildY + lastChildY) \div 2)],
              leafY |-> r.leafY,
              addr |-> p]

\* assignCoords with a defect: a parent sits at the mean of all its children
assignCoords_meanOfChildren(h, leafY, a, depth, collapsedSet) ==
  LET isCollapsed == h[a].id \in collapsedSet
      p == Len(h) + 1
      h1 == Append(h, SetField(SetField(h[a], "depth", depth),
                               "isCollapsed", isCollapsed))
  IN IF isCollapsed \/ ~hasChildren(h1[p])
     THEN [heap |-> [h1 EXCEPT ![p] =
                       SetField(SetField(h1[p], "x", depth * X_GAP + X_OFFSET),
                                "y", leafY * Y_GAP + Y_OFFSET)],
           leafY |-> leafY + 1,
           addr |-> p]
     ELSE LET r == assignCoordsAll(h1, leafY, h1[p].children, depth + 1,
                                   collapsedSet, <<>>)
              h2 == [r.heap EXCEPT ![p] = SetField(r.heap[p], "children", r.addrs)]
          IN [heap |-> [h2 EXCEPT ![p] =
                          SetField(SetField(h2[p], "x", depth * X_GAP + X_OFFSET),
                                   "y", sumY(h2, h2[p].children, 1)
                                          \div Len(h2[p].children))],
              leafY |-> r.leafY,
              addr |-> p]

RECURSIVE assignCoordsInPlace(_, _, _, _, _)
RECURSIVE assignCoordsInPlaceAll(_, _, _, _, _, _)

assignCoordsInPlaceAll(h, leafY, kids, depth, collapsedSet, acc) ==
  IF kids = <<>> THEN [heap |-> h, leafY |-> leafY, addrs |-> acc]
  ELSE LET r == assignCoordsInPlace(h, leafY, Head(kids), depth, collapsedSet)
       IN assignCoordsInPlaceAll(r.heap, r.leafY, Tail(kids), depth, collapsedSet,
                                 Append(acc, r.addr))

\* assignCoords writing depth, isCollapsed, x and y on the node it is given
assignCoordsInPlace(h, leafY, a, depth, collapsedSet) ==
  LET isCollapsed == h[a].id \in collapsedSet
      p == a
      h1 == [h EXCEPT ![a] = SetField(SetField(h[a], "depth", depth),
                                      "isCollapsed", isCollapsed)]
  IN IF isCollapsed \/ ~hasChildren(h1[p])
     THEN [heap |-> [h1 EXCEPT ![p] =
                       SetField(SetField(h1[p], "x", depth * X_GAP + X_OFFSET),
                                "y", leafY * Y_GAP + Y_OFFSET)],
           leafY |-> leafY + 1,
           addr |-> p]
     ELSE LET r == assignCoordsInPlaceAll(h1, leafY, h1[p].children, depth + 1,
                                          collapsedSet, <<>>)
              h2 == [r.heap EXCEPT ![p] = SetField(r.heap[p], "children", r.addrs)]
              firstChildY == h2[h2[p].children[1]].y
              lastChildY == h2[h2[p].children[Len(h2[p].children)]].y
          IN [heap |-> [h2 EXCEPT ![p] =
                          SetField(SetField(h2[p], "x", depth * X_GAP + X_OFFSET),
                                   "y", (firstChildY + lastChildY) \div 2)],
              leafY |-> r.leafY,
              addr |-> p]

\* h: the object store, leafY: currentLeafY, a: the node.  The result holds
\* the store and currentLeafY after the call and the address of processedNode.
assignCoords(h, leafY, a, depth, collapsedSet) ==
  LET isCollapsed == h[a].id \in collapsedSet
      \* { ...node, depth, isCollapsed }: a new object
      p == Len(h) + 1
      h1 == Append(h, SetField(SetField(h[a], "depth", depth),
                               "isCollapsed", isCollapsed))
  IN IF isCollapsed \/ ~hasChildren(h1[p])
     THEN [heap |-> [h1 EXCEPT ![p] =
                       SetField(SetField(h1[p], "x", depth * X_GAP + X_OFFSET),
                                "y", leafY * Y_GAP + Y_OFFSET)],
           leafY |-> leafY + 1,
           addr |-> p]
     ELSE LET r == assignCoordsAll(h1, leafY, h1[p].children, depth + 1,
                                   collapsedSet, <<>>)
              h2 == [r.heap EXCEPT ![p] = SetField(r.heap[p], "children", r.addrs)]
              firstChildY == h2[h2[p].children[1]].y
              lastChildY == h2[h2[p].children[Len(h2[p].children)]].y
          IN [heap |-> [h2 EXCEPT ![p] =
                          SetField(SetField(h2[p], "x", depth * X_GAP + X_OFFSET),
                                   "y", (firstChildY + lastChildY) \div 2)],
              leafY |-> r.leafY,
              addr |-> p]

\* charWidth 7.5 for code and 7 otherwise, in halves
charWidth2(type) == IF type = "code" THEN 15 ELSE 14

\* Math.max(140, (node.label.length * charWidth) + 30) in collect
nodeWidth(obj) ==
  LET w == (obj.label * charWidth2(obj.type)) \div 2 + Padding
  IN IF w > MinWidth THEN w ELSE MinWidth

\* the child's width as collect computes it again for the edge
childWidth(obj) ==
  LET w == (obj.label * charWidth2(obj.type)) \div 2 + Padding
  IN IF w > MinWidth THEN w ELSE MinWidth

RECURSIVE collect(_, _, _, _)
RECURSIVE collectAll(_, _, _, _, _, _)

\* collectAll with a defect: the edge ends at the child's right edge
collectAll_childRightEdge(h, a, halfWidth, kids, nodes, edges) ==
  IF kids = <<>> THEN [heap |-> h, nodes |-> nodes, edges |-> edges]
  ELSE LET child == h[Head(kids)]
           childHalfWidth == childWidth(child) \div 2
           edge == [x1 |-> h[a].x + halfWidth, y1 |-> h[a].y,
                    x2 |-> child.x + childHalfWidth, y2 |-> child.y]
           r == collect(h, Head(kids), nodes, Append(edges, edge))
       IN collectAll(r.heap, a, halfWidth, Tail(kids), r.nodes, r.edges)

\* node.children.forEach(child => { edges.push(...); collect(child) })
collectAll(h, a, halfWidth, kids, nodes, edges) ==
  IF kids = <<>> THEN [heap |-> h, nodes |-> nodes, edges |-> edges]
  ELSE LET child == h[Head(kids)]
           childHalfWidth == childWidth(child) \div 2
           edge == [x1 |-> h[a].x + halfWidth, y1 |-> h[a].y,
                    x2 |-> child.x - childHalfWidth, y2 |-> child.y]
           r == collect(h, Head(kids), nodes, Append(edges, edge))
       IN collectAll(r.heap, a, halfWidth, Tail(kids), r.nodes, r.edges)

\* collect with a defect: a node flagged isCollapsed is not pushed
collect_hideCollapsed(h, a, nodes, edges) ==
  LET halfWidth == nodeWidth(h[a]) \div 2
      h1 == [h EXCEPT ![a] = SetField(h[a], "halfWidth", halfWidth)]
      nodes1 == IF h1[a].isCollapsed THEN nodes ELSE Append(nodes, a)
  IN IF ~h1[a].isCollapsed /\ HasField(h1[a], "children")
     THEN collectAll(h1, a, halfWidth, h1[a].children, nodes1, edges)
     ELSE [heap |-> h1, nodes |-> nodes1, edges |-> edges]

\* nodes holds addresses: nodes.push(node) pushes the object itself
collect(h, a, nodes, edges) ==
  LET halfWidth == nodeWidth(h[a]) \div 2
      h1 == [h EXCEPT ![a] = SetField(h[a], "halfWidth", halfWidth)]
      nodes1 == Append(nodes, a)
  IN IF ~h1[a].isCollapsed /\ HasField(h1[a], "children")
     THEN collectAll(h1, a, halfWidth, h1[a].children, nodes1, edges)
     ELSE [heap |-> h1, nodes |-> nodes1, edges |-> edges]

Max(a, b) == IF a > b THEN a ELSE b

\* reduce with a defect: the callback returns f(n), not the larger of the
\* two, so that the last node decides
reduceMax_last(vals, i, acc) ==
  IF vals = <<>> THEN acc ELSE vals[Len(vals)]

RECURSIVE reduceMax(_, _, _)
\* list.reduce((max, n) => Math.max(max, f(n)), init)
reduceMax(vals, i, acc) ==
  IF i > Len(vals) THEN acc ELSE reduceMax(vals, i + 1, Max(acc, vals[i]))

\* a node of the result as a value: its children named by their ids
NodeValue(h, a) ==
  SetField(h[a], "children", [i \in DOMAIN h[a].children |-> h[h[a].children[i]].id])

\* the outcome of reading node.id with node = null
Threw(h) == [status |-> "TypeError", heap |-> h]

\* calculateLayout with a defect: no copy is made, the caller's nodes are
\* annotated where they are
calculateLayout_inPlace(h, root, collapsedSet) ==
  LET copy == [heap |-> h, addr |-> root]
  IN IF copy.addr = Null THEN Threw(copy.heap)
     ELSE
       LET layoutRoot == assignCoordsInPlace(copy.heap, 0, copy.addr, 0, collapsedSet)
           c == collect(layoutRoot.heap, layoutRoot.addr, <<>>, <<>>)
           xs == [i \in DOMAIN c.nodes |->
                    c.heap[c.nodes[i]].x +
                      (IF HasField(c.heap[c.nodes[i]], "halfWidth")
                          /\ c.heap[c.nodes[i]].halfWidth # 0
                       THEN c.heap[c.nodes[i]].halfWidth ELSE DefaultHalfWidth)]
           ys == [i \in DOMAIN c.nodes |-> c.heap[c.nodes[i]].y]
           maxX == reduceMax(xs, 1, 0)
           maxY == reduceMax(ys, 1, 0)
       IN [status |-> "ok",
           nodes |-> [i \in DOMAIN c.nodes |-> NodeValue(c.heap, c.nodes[i])],
           edges |-> c.edges,
           width |-> Max(MinCanvasWidth, maxX + CanvasMargin),
           height |-> Max(MinCanvasHeight, maxY + CanvasMargin),
           heap |-> c.heap]

\* the value calculateLayout returns, with the object store as the call left it
calculateLayout(h, root, collapsedSet) ==
  LET copy == JSONClone(h, root)
  IN IF copy.addr = Null THEN Threw(copy.heap)
     ELSE
       LET layoutRoot == assignCoords(copy.heap, 0, copy.addr, 0, collapsedSet)
           c == collect(layoutRoot.heap, layoutRoot.addr, <<>>, <<>>)
           xs == [i \in DOMAIN c.nodes |->
                    c.heap[c.nodes[i]].x +
                      (IF HasField(c.heap[c.nodes[i]], "halfWidth")
                          /\ c.heap[c.nodes[i]].halfWidth # 0
                       THEN c.heap[c.nodes[i]].halfWidth ELSE DefaultHalfWidth)]
           ys == [i \in DOMAIN c.nodes |-> c.heap[c.nodes[i]].y]
           maxX == reduceMax(xs, 1, 0)
           maxY == reduceMax(ys, 1, 0)
       IN [status |-> "ok",
           nodes |-> [i \in DOMAIN c.nodes |-> NodeValue(c.heap, c.nodes[i])],
           edges |-> c.edges,
           width |-> Max(MinCanvasWidth, maxX + CanvasMargin),
           height |-> Max(MinCanvasHeight, maxY + CanvasMargin),
           heap |-> c.heap]

\* the caller's objects as a call that returned r left them
CallerHeap(h, r) == SubSeq(r.heap, 1, Len(h))

\* the returned value alone
Returned(r) ==
  IF r.status = "ok"
  THEN [status |-> "ok", nodes |-> r.nodes, edges |-> r.edges,
        width |-> r.width, height |-> r.height]
  ELSE [status |-> r.status]

----------------------------------------------------------------------------
(* MindMapNode({ node, x, y, onToggle }) *)

\* calculatedWidth with a defect: every node is measured at 7 per character
calculatedWidth_noCode(obj) ==
  LET w == (obj.label * 14) \div 2 + NodePadding
  IN IF w > NodeMinWidth THEN w ELSE NodeMinWidth

\* Math.max(minWidth, (node.label.length * charWidth) + padding), with
\* charWidth = isCode ? 7.5 : 7 (twice charWidth is halved after the product)
calculatedWidth(obj) ==
  LET isCode == obj.type = "code"
      w == (obj.label * (IF isCode THEN 15 ELSE 14)) \div 2 + NodePadding
  IN IF w > NodeMinWidth THEN w ELSE NodeMinWidth

----------------------------------------------------------------------------
(* MindMapRenderer: the seeding effect, handleToggle, useMemo *)

RECURSIVE collapseRecursively(_, _, _, _)
RECURSIVE collapseEach(_, _, _, _)

\* node.children.forEach(collapseRecursively)
collapseEach(h, kids, dataId, set) ==
  IF kids = <<>> THEN set
  ELSE collapseEach(h, Tail(kids), dataId,
                    collapseRecursively(h, Head(kids), dataId, set))

\* collapseRecursively with a defect: the root is not left out
collapseRecursively_withRoot(h, a, dataId, set) ==
  IF hasChildren(h[a])
  THEN collapseEach(h, h[a].children, dataId, set \cup {h[a].id})
  ELSE set

\* set: initialCollapsed so far; the result is initialCollapsed after the call
collapseRecursively(h, a, dataId, set) ==
  IF hasChildren(h[a])
  THEN collapseEach(h, h[a].children, dataId,
                    IF h[a].id # dataId THEN set \cup {h[a].id} ELSE set)
  ELSE set

\* the set the effect hands to setCollapsed
initialCollapsed(h, d) ==
  IF d # Null THEN collapseRecursively(h, d, h[d].id, {}) ELSE {}

\* handleToggle with a defect: an id is added and never removed
handleToggle_addOnly(prev, id) ==
  [set |-> prev \cup {id}, isNew |-> TRUE]

\* handleToggle with a defect: next does not start as a copy of prev
handleToggle_noCopy(prev, id) ==
  [set |-> {id}, isNew |-> TRUE]

\* the updater of handleToggle: the Set it returns, and whether that is
\* another object than prev (next = new Set(prev) is)
handleToggle(prev, id) ==
  LET next == prev
  IN [set |-> IF id \in next THEN next \ {id} ELSE next \cup {id},
      isNew |-> TRUE]

\* useMemo with a defect: the dependency list is [data]
depsChanged_dataOnly(dataChanged, collapsedChanged) == dataChanged

\* useMemo(..., [data, collapsed]): whether the value is computed again
depsChanged(dataChanged, collapsedChanged) == dataChanged \/ collapsedChanged

\* the ids MindMapNode calls onToggle with: the drawn nodes with children
Toggleable(layout) ==
  IF layout.status = "ok"
  THEN {layout.nodes[i].id : i \in {j \in DOMAIN layout.nodes :
                                      hasChildren(layout.nodes[j])}}
  ELSE {}

----------------------------------------------------------------------------
(* SpecLayout: calculateLayout called once on every tree (or no tree) and  *)
(* every collapsed set over the tree's ids and one unknown id.             *)

NoHistory == [collapsed |-> {}, layout |-> NoLayout, heap |-> <<>>]

IdsOf(h) == {h[a].id : a \in DOMAIN h}

InitLayout ==
  /\ heap \in Trees \cup {<<>>}
  /\ data = (IF heap = <<>> THEN Null ELSE 1)
  /\ collapsed \in SUBSET (IdsOf(heap) \cup {UnknownId})
  /\ fresh = TRUE
  /\ memo = NoLayout
  /\ phase = "input"
  /\ arg = UnknownId
  /\ before = NoHistory
  /\ clean = TRUE
  /\ call = NoCall

CallLayout ==
  /\ phase = "input"
  /\ LET r == calculateLayout(heap, data, collapsed)
     IN /\ memo' = Returned(r)
        /\ heap' = CallerHeap(heap, r)
  /\ before' = [collapsed |-> collapsed, layout |-> memo, heap |-> heap]
  /\ phase' = "returned"
  /\ UNCHANGED <<data, collapsed, fresh, arg, clean, call>>

NextLayout == CallLayout

SpecLayout == InitLayout /\ [][NextLayout]_vars

----------------------------------------------------------------------------
(* What the claims speak of, read off the input tree h (the caller's       *)
(* objects before the call) and the collapsed set S, not off the code.     *)

\* the address of the parent of every node, Null for the root
ParentMap(h) ==
  [a \in DOMAIN h |->
     IF \E p \in DOMAIN h : a \in Range(h[p].children)
     THEN CHOOSE p \in DOMAIN h : a \in Range(h[p].children)
     ELSE Null]

ParentOf(h, a) == ParentMap(h)[a]

IsRoot(h, a) == ParentMap(h)[a] = Null

RECURSIVE AncestorsIn(_, _)
AncestorsIn(par, a) ==
  IF par[a] = Null THEN {} ELSE {par[a]} \cup AncestorsIn(par, par[a])

ProperAncestors(h, a) == AncestorsIn(ParentMap(h), a)

\* distance from the root
DepthOf(h, a) == Cardinality(ProperAncestors(h, a))

\* the nodes none of whose proper ancestors is collapsed
Visible(h, S) ==
  LET par == ParentMap(h)
  IN {a \in DOMAIN h : \A p \in AncestorsIn(par, a) : h[p].id \notin S}

\* a visible node that is collapsed or childless
VisualLeaf(h, S, a) == h[a].id \in S \/ h[a].children = <<>>

\* the indices of the output nodes that carry id
Occurrences(nodes, id) == {i \in DOMAIN nodes : nodes[i].id = id}

\* the output node that carries id
OutNode(nodes, id) == nodes[CHOOSE i \in DOMAIN nodes : nodes[i].id = id]

Returned_ok == phase = "returned" /\ memo.status = "ok"

\* C1 (visibility): in the nodes calculateLayout returns, a tree node occurs
\* once if none of its proper ancestors is in the collapsed set and not at
\* all otherwise, and every output node is a node of the tree.
C1_Visibility ==
  Returned_ok =>
    /\ LET vis == Visible(before.heap, collapsed)
       IN \A a \in DOMAIN before.heap :
            Cardinality(Occurrences(memo.nodes, before.heap[a].id)) =
              (IF a \in vis THEN 1 ELSE 0)
    /\ \A i \in DOMAIN memo.nodes : memo.nodes[i].id \in IdsOf(before.heap)

\* a layout with a node hidden below a collapsed non-root node, while the
\* collapsed node and its siblings are shown
C1_Witness ==
  /\ Returned_ok
  /\ \E a \in DOMAIN before.heap :
       /\ a \notin Visible(before.heap, collapsed)
       /\ ParentOf(before.heap, a) \in Visible(before.heap, collapsed)
       /\ ~IsRoot(before.heap, ParentOf(before.heap, a))
       /\ Occurrences(memo.nodes, before.heap[a].id) = {}
  /\ Len(memo.nodes) >= 3

\* C6 (missing tree): a call with a null root returns the empty, well-formed
\* result: no nodes, no edges, the minimum bounding box.
C6_NullRootEmptyResult ==
  (phase = "returned" /\ data = Null) =>
    memo = [status |-> "ok", nodes |-> <<>>, edges |-> <<>>,
            width |-> MinCanvasWidth, height |-> MinCanvasHeight]

\* the sizing function of spec 4.1: max(140, length * c + 30), c = 7.5 for
\* code and 7 otherwise
BoxWidth(len, type) ==
  Max(140, (len * (IF type = "code" THEN 15 ELSE 14)) \div 2 + 30)

\* the pairs (p, c): p visible and not collapsed, c a child of p
EdgePairs(h, S) ==
  UNION {{<<p, c>> : c \in Range(h[p].children)} :
           p \in {q \in Visible(h, S) : h[q].id \notin S}}

\* the edge the claim gives the pair: from the right-edge centre of the
\* parent to the left-edge centre of the child
EdgeOf(h, nodes, pc) ==
  LET pn == OutNode(nodes, h[pc[1]].id)
      cn == OutNode(nodes, h[pc[2]].id)
  IN [x1 |-> pn.x + BoxWidth(pn.label, pn.type) \div 2, y1 |-> pn.y,
      x2 |-> cn.x - BoxWidth(cn.label, cn.type) \div 2, y2 |-> cn.y]

\* C7 (edge set): the edges are, as a bag, the edges of the pairs (visible
\* non-collapsed parent, child), one each, so there are as many as visible
\* nodes less one; a collapsed node is the parent of no pair.
C7_EdgeSet ==
  Returned_ok =>
    LET h == before.heap
        pairs == EdgePairs(h, collapsed)
        edgeOf == [pc \in pairs |-> EdgeOf(h, memo.nodes, pc)]
        expected == {edgeOf[pc] : pc \in pairs}
    IN /\ Len(memo.edges) = Cardinality(Visible(h, collapsed)) - 1
       /\ \A e \in Range(memo.edges) \cup expected :
            Cardinality({i \in DOMAIN memo.edges : memo.edges[i] = e}) =
              Cardinality({pc \in pairs : edgeOf[pc] = e})

\* a layout with three edges or more, a shown collapsed node that has
\* children, and an edge between boxes of different widths above the minimum
C7_Witness ==
  /\ Returned_ok
  /\ Len(memo.edges) >= 3
  /\ \E a \in Visible(before.heap, collapsed) :
       before.heap[a].id \in collapsed /\ before.heap[a].children # <<>>
  /\ \E pc \in EdgePairs(before.heap, collapsed) :
       LET pn == before.heap[pc[1]]
           cn == before.heap[pc[2]]
       IN /\ BoxWidth(pn.label, pn.type) > 140
          /\ BoxWidth(cn.label, cn.type) > BoxWidth(pn.label, pn.type)

\* C8 (read-only inputs): when calculateLayout returns, or throws, the
\* caller's tree objects are what they were before the call, field for field
\* (no field added, none changed), and so is the collapsed set.
C8_InputsUnchanged ==
  phase = "returned" => heap = before.heap /\ collapsed = before.collapsed

\* a call that returned a layout of a tree with a shown collapsed subtree
\* and an expanded one
C8_Witness ==
  /\ Returned_ok
  /\ \E a \in Visible(heap, collapsed) :
       heap[a].id \in collapsed /\ heap[a].children # <<>>
  /\ \E a \in Visible(heap, collapsed) :
       ~IsRoot(heap, a) /\ heap[a].id \notin collapsed /\ heap[a].children # <<>>

\* C10 (coordinates): every output node has x = depth * 300 + 100, depth its
\* distance from the root; the k-th visual leaf in pre-order (addresses are
\* in pre-order) has y = k * 80 + 50; an expanded node with children lies
\* midway between its first and its last child.
C10_Coordinates ==
  Returned_ok =>
    LET h == before.heap
        S == collapsed
        vis == Visible(h, S)
        leaves == {b \in vis : VisualLeaf(h, S, b)}
        N(a) == OutNode(memo.nodes, h[a].id)
    IN \A a \in vis :
         /\ N(a).x = DepthOf(h, a) * 300 + 100
         /\ N(a).depth = DepthOf(h, a)
         /\ IF a \in leaves
            THEN N(a).y = Cardinality({b \in leaves : b < a}) * 80 + 50
            ELSE 2 * N(a).y =
                   N(h[a].children[1]).y + N(h[a].children[Len(h[a].children)]).y

RECURSIVE SumOutY(_, _, _, _)
SumOutY(h, nodes, kids, i) ==
  IF i > Len(kids) THEN 0
  ELSE OutNode(nodes, h[kids[i]].id).y + SumOutY(h, nodes, kids, i + 1)

\* a layout where an expanded node has three children or more and does not
\* lie at the mean of their y
C10_Witness ==
  /\ Returned_ok
  /\ \E a \in Visible(before.heap, collapsed) :
       LET kids == before.heap[a].children
       IN /\ before.heap[a].id \notin collapsed
          /\ Len(kids) >= 3
          /\ Len(kids) * OutNode(memo.nodes, before.heap[a].id).y
               # SumOutY(before.heap, memo.nodes, kids, 1)

\* the largest member of a non-empty set of integers
SetMax(S) == CHOOSE m \in S : \A v \in S : v <= m

\* C11 (bounding box): the returned width is max(800, M + 200), M the
\* largest x + width / 2 over the visible nodes, width the sizing function
\* of the node's label and type; the returned height is max(600, Y + 200),
\* Y the largest y; so width >= 800 and height >= 600, and a tree of one
\* node whose label fits the least box gets 800 by 600.
C11_BoundingBox ==
  Returned_ok =>
    LET h == before.heap
        vis == Visible(h, collapsed)
        N(a) == OutNode(memo.nodes, h[a].id)
        M == SetMax({N(a).x + BoxWidth(h[a].label, h[a].type) \div 2 : a \in vis})
        Y == SetMax({N(a).y : a \in vis})
    IN /\ memo.width = Max(800, M + 200)
       /\ memo.height = Max(600, Y + 200)
       /\ memo.width >= 800
       /\ memo.height >= 600
       /\ (Len(h) = 1 /\ BoxWidth(h[1].label, h[1].type) = 140)
            => (memo.width = 800 /\ memo.height = 600)

\* a layout wider than 800 and higher than 600 whose right edge is not set
\* by the last node
C11_Witness ==
  /\ Returned_ok
  /\ memo.width > 800
  /\ memo.height > 600
  /\ LET last == memo.nodes[Len(memo.nodes)]
     IN memo.width > last.x + last.halfWidth + 200

\* C14 (vertical order): of two distinct visible nodes at the same depth,
\* the one that comes later in depth-first child order (addresses are in
\* that order) lies at least 80 below the other.
C14_VerticalOrder ==
  Returned_ok =>
    LET h == before.heap
        vis == Visible(h, collapsed)
        out == [a \in vis |-> OutNode(memo.nodes, h[a].id)]
    IN \A a \in vis : \A b \in {c \in vis : c > a} :
         out[a].depth = out[b].depth => out[b].y - out[a].y >= 80

\* a layout with two visible nodes of the same depth under different
\* parents exactly 80 apart, and two of the same depth further apart
C14_Witness ==
  /\ Returned_ok
  /\ LET h == before.heap
         par == ParentMap(h)
         vis == Visible(h, collapsed)
         out == [a \in vis |-> OutNode(memo.nodes, h[a].id)]
     IN /\ \E a \in vis : \E b \in {c \in vis : c > a} :
             /\ out[a].depth = out[b].depth
             /\ par[a] # par[b]
             /\ out[b].y - out[a].y = 80
        /\ \E a \in vis : \E b \in {c \in vis : c > a} :
             /\ out[a].depth = out[b].depth
             /\ out[b].y - out[a].y > 80
             /\ \A c \in vis : out[c].depth = out[a].depth => (c <= a \/ c >= b)

\* C15 (canvas containment): the box of every visible node, which spans
\* x - width / 2 to x + width / 2 and y - 25 to y + 25, lies inside the
\* canvas, 0 to the returned width by 0 to the returned height.
C15_CanvasContainment ==
  Returned_ok =>
    LET h == before.heap
        vis == Visible(h, collapsed)
        out == [a \in vis |-> OutNode(memo.nodes, h[a].id)]
        half == [a \in vis |-> BoxWidth(h[a].label, h[a].type) \div 2]
    IN \A a \in vis :
         /\ 0 <= out[a].x - half[a]
         /\ out[a].x + half[a] <= memo.width
         /\ 0 <= out[a].y - 25
         /\ out[a].y + 25 <= memo.height

----------------------------------------------------------------------------
(* SpecSizing: one node measured three times, by collect as a node, by     *)
(* collect as the child end of an edge, and by MindMapNode when drawn.     *)
(* Label lengths are even, so that length * 7.5 is an integer and the      *)
(* model's arithmetic is the code's.                                       *)

NodeTypes == {"root", "child", "code"}

LabelLengths == {2 * j : j \in 0..MaxHalfLabel}

NodeOf(len, type) == [id |-> 1, label |-> len, type |-> type, children |-> <<>>]

InitSizing ==
  /\ heap \in {<<NodeOf(len, type)>> : len \in LabelLengths, type \in NodeTypes}
  /\ data = 1
  /\ collapsed = {}
  /\ fresh = TRUE
  /\ memo = NoLayout
  /\ phase = "input"
  /\ arg = UnknownId
  /\ before = NoHistory
  /\ clean = TRUE
  /\ call = NoCall

Measure ==
  /\ phase = "input"
  /\ memo' = [status |-> "measured",
              node |-> nodeWidth(heap[data]),
              child |-> childWidth(heap[data]),
              drawn |-> calculatedWidth(heap[data])]
  /\ phase' = "measured"
  /\ UNCHANGED <<heap, data, collapsed, fresh, arg, before, clean, call>>

NextSizing == Measure

SpecSizing == InitSizing /\ [][NextSizing]_vars

\* C12 (sizing): the width collect uses for a node, the width it uses for
\* the child end of an edge and the width MindMapNode draws are one
\* function of label length and type, max(140, length * c + 30) with c = 7.5
\* for 'code' and 7 otherwise; it is never below 140, does not decrease as
\* the label grows, and gives 330 ('code') and 310 (otherwise) at length 40.
C12_Sizing ==
  phase = "measured" =>
    LET len == heap[data].label
        type == heap[data].type
    IN /\ memo.node = memo.drawn
       /\ memo.child = memo.drawn
       /\ 2 * memo.drawn =
            Max(2 * 140, len * (IF type = "code" THEN 15 ELSE 14) + 2 * 30)
       /\ memo.drawn >= 140
       /\ \A shorter \in {l \in LabelLengths : l < len} :
            /\ calculatedWidth(NodeOf(shorter, type)) <= memo.drawn
            /\ nodeWidth(NodeOf(shorter, type)) <= memo.node
       /\ len = 40 => memo.drawn = (IF type = "code" THEN 330 ELSE 310)

\* a 'code' node of length 40 measured: wider than the least box and wider
\* than a node of another type with the same label
C12_Witness ==
  /\ phase = "measured"
  /\ heap[data].type = "code"
  /\ heap[data].label = 40
  /\ memo.drawn = 330
  /\ memo.drawn > calculatedWidth(NodeOf(40, "child"))

----------------------------------------------------------------------------
(* Spec: MindMapRenderer inside MindMapApp.  A tree is loaded by            *)
(* onGenerateMindMap (activeMindMap set: the component mounts, or is given  *)
(* other data); the render that follows computes the layout with the       *)
(* collapsed state the component holds, the effect then seeds the state,   *)
(* and every state change is followed by a render.  Events are handled      *)
(* between renders.                                                         *)

Init ==
  /\ heap = <<>>
  /\ data = Null
  /\ collapsed = {}
  /\ fresh = TRUE
  /\ memo = NoLayout
  /\ phase = "unmounted"
  /\ arg = UnknownId
  /\ before = NoHistory
  /\ clean = TRUE
  /\ call = NoCall

\* setActiveMindMap(t): MindMapRenderer is to render with data = t.  With
\* no map shown it mounts, and useState gives it the empty set, which is
\* what the unmounted component is modelled to hold.  Every load hands over
\* another object, also when the tree equals the one shown (the map of
\* another message); setting the very object shown changes nothing.
LoadTree(t) ==
  /\ phase \in {"unmounted", "idle"}
  /\ heap' = t
  /\ data' = 1
  /\ phase' = "loaded"
  /\ clean' = TRUE
  /\ UNCHANGED <<collapsed, fresh, memo, arg, before, call>>

\* a render of MindMapRenderer: useMemo computes the layout again when data
\* or collapsed is another object than at the last render.  The render
\* that follows a change of data leaves the effect to run.
Render ==
  /\ phase \in {"loaded", "seeded", "toggled"}
  /\ IF depsChanged(phase = "loaded", fresh)
     THEN LET r == calculateLayout(heap, data, collapsed)
          IN /\ memo' = Returned(r)
             /\ heap' = CallerHeap(heap, r)
     ELSE UNCHANGED <<memo, heap>>
  /\ fresh' = FALSE
  /\ before' = NoHistory
  /\ phase' = IF phase = "loaded" THEN "effect" ELSE "idle"
  /\ UNCHANGED <<data, collapsed, arg, clean, call>>

\* useEffect(..., [data]): setCollapsed(initialCollapsed)
RunEffect ==
  /\ phase = "effect"
  /\ collapsed' = initialCollapsed(heap, data)
  /\ fresh' = TRUE
  /\ before' = [NoHistory EXCEPT !.collapsed = collapsed]
  /\ phase' = "seeded"
  /\ UNCHANGED <<heap, data, memo, arg, clean, call>>

\* a click on a drawn node that has children: onToggle(node.id).  React
\* renders again unless the updater returned the Set it was given.
ClickToggle(id) ==
  /\ phase = "idle"
  /\ id \in Toggleable(memo)
  /\ LET r == handleToggle(collapsed, id)
     IN /\ collapsed' = r.set
        /\ fresh' = r.isNew
        /\ phase' = IF r.isNew THEN "toggled" ELSE "idle"
  /\ clean' = FALSE
  /\ UNCHANGED <<heap, data, memo, arg, before, call>>

\* setActiveMindMap(null): MindMapRenderer unmounts, its state is dropped
Close ==
  /\ phase = "idle"
  /\ heap' = <<>>
  /\ data' = Null
  /\ collapsed' = {}
  /\ fresh' = TRUE
  /\ memo' = NoLayout
  /\ phase' = "unmounted"
  /\ clean' = TRUE
  /\ UNCHANGED <<arg, before, call>>

Next ==
  \/ \E t \in LoadTrees : LoadTree(t)
  \/ Render
  \/ RunEffect
  \/ \E id \in AllIds : ClickToggle(id)
  \/ Close

Spec == Init /\ [][Next]_vars

\* the ids the seeding rule names: the nodes with a child, the root left out
SeedSet(h) ==
  {h[a].id : a \in {b \in DOMAIN h : h[b].children # <<>> /\ ~IsRoot(h, b)}}

\* C2 (seeding): once the effect has run for a loaded tree, and until a
\* toggle, the collapsed set is exactly the ids of the non-root nodes that
\* have a child; nothing of the set held before is kept.
C2_Seeding ==
  (phase = "seeded" \/ (phase = "idle" /\ clean)) => collapsed = SeedSet(heap)

\* the effect has just replaced a set that held the root's id (there only
\* by a toggle on the tree shown before) by the seed of the new tree
C2_Witness ==
  /\ phase = "seeded"
  /\ 1 \in before.collapsed
  /\ collapsed # {}
  /\ collapsed \ before.collapsed # {}
  /\ before.collapsed \ collapsed # {1}

\* C3 (initial visibility): from the load of a tree to the first toggle,
\* every layout computed for it holds nodes of depth 0 and 1 only.
C3_InitialVisibility ==
  (clean /\ phase \in {"effect", "seeded", "idle"} /\ memo.status = "ok") =>
    \A i \in DOMAIN memo.nodes : memo.nodes[i].depth <= 1

\* C9 (re-layout): after a render the memoized layout, which is what is
\* drawn, is calculateLayout of the data and the collapsed set the
\* component holds.
C9_RenderIsCurrent ==
  phase \in {"effect", "idle"} =>
    memo = Returned(calculateLayout(heap, data, collapsed))

\* a render after a toggle that left the set other than the seed, showing
\* a node of depth 2
C9_Witness ==
  /\ phase = "idle"
  /\ ~clean
  /\ collapsed # SeedSet(heap)
  /\ \E i \in DOMAIN memo.nodes : memo.nodes[i].depth = 2

----------------------------------------------------------------------------
(* SpecToggle: handleToggle called twice with the same id, on every tree    *)
(* of LoadTrees, every collapsed set and every id (ids of nodes with        *)
(* children, ids of leaves, the unknown id), the layout computed before,    *)
(* between and after.                                                       *)

InitToggle ==
  /\ heap \in LoadTrees
  /\ data = 1
  /\ collapsed \in SUBSET (IdsOf(heap) \cup {UnknownId})
  /\ arg \in IdsOf(heap) \cup {UnknownId}
  /\ fresh = TRUE
  /\ memo = NoLayout
  /\ phase = "layout0"
  /\ before = NoHistory
  /\ clean = TRUE
  /\ call = NoCall

\* calculateLayout(data, collapsed); the first call's inputs and result are
\* kept in before
LayoutStep ==
  /\ phase \in {"layout0", "layout1", "layout2"}
  /\ LET r == calculateLayout(heap, data, collapsed)
     IN /\ memo' = Returned(r)
        /\ heap' = CallerHeap(heap, r)
        /\ before' = IF phase = "layout0"
                     THEN [collapsed |-> collapsed, layout |-> Returned(r),
                           heap |-> heap]
                     ELSE before
  /\ phase' = CASE phase = "layout0" -> "toggle1"
                [] phase = "layout1" -> "toggle2"
                [] phase = "layout2" -> "done"
  /\ UNCHANGED <<data, collapsed, arg, fresh, clean, call>>

\* handleToggle(arg)
ToggleStep ==
  /\ phase \in {"toggle1", "toggle2"}
  /\ LET r == handleToggle(collapsed, arg)
     IN /\ collapsed' = r.set
        /\ fresh' = r.isNew
  /\ phase' = IF phase = "toggle1" THEN "layout1" ELSE "layout2"
  /\ clean' = FALSE
  /\ UNCHANGED <<heap, data, memo, arg, before, call>>

NextToggle == LayoutStep \/ ToggleStep

SpecToggle == InitToggle /\ [][NextToggle]_vars

\* the ids of the nodes of h that have children
ParentIds(h) == {h[a].id : a \in {b \in DOMAIN h : h[b].children # <<>>}}

\* C4 (toggle round trip): one handleToggle(id) flips the membership of id
\* and of no other id; a second one gives back the collapsed set and, with
\* it, the layout (nodes, coordinates, flags, edges, bounding box).
C4_ToggleRoundTrip ==
  /\ phase \in {"layout1", "toggle2"} =>
       /\ (arg \in collapsed) # (arg \in before.collapsed)
       /\ \A id \in AllIds \ {arg} :
            (id \in collapsed) = (id \in before.collapsed)
  /\ phase \in {"layout2", "done"} => collapsed = before.collapsed
  /\ phase = "done" => memo = before.layout

\* the round trip done for the id of a drawn node with children that was
\* collapsed among others: the toggle in between changed the layout
C4_Witness ==
  /\ phase = "done"
  /\ arg \in collapsed
  /\ collapsed \ {arg} # {}
  /\ arg \in Toggleable(memo)

\* C5 as stated (no-op): handleToggle with an id that is not the id of a
\* node with children leaves the collapsed set equal to what it was.
C5_NonToggleableNoOp ==
  (phase \in {"layout1", "toggle2"} /\ arg \notin ParentIds(heap)) =>
    collapsed = before.collapsed

\* a node of the output as the drawing uses it, but for the isCollapsed flag
Drawn(n) == [id |-> n.id, x |-> n.x, y |-> n.y, depth |-> n.depth,
             halfWidth |-> n.halfWidth, label |-> n.label, type |-> n.type,
             children |-> n.children]

\* C5 (amended): handleToggle with an id that is not the id of a node with
\* children returns normally, flips the membership of that id alone (it
\* adds an absent id), and the layout computed next has the same nodes at
\* the same x, y and depth, the same edges and the same bounding box.
C5_NonToggleableFlipsIdOnly ==
  (phase \in {"layout1", "toggle2"} /\ arg \notin ParentIds(heap)) =>
    /\ collapsed = IF arg \in before.collapsed
                   THEN before.collapsed \ {arg}
                   ELSE before.collapsed \cup {arg}
    /\ phase = "toggle2" =>
         /\ memo.status = "ok"
         /\ [i \in DOMAIN memo.nodes |-> Drawn(memo.nodes[i])] =
              [i \in DOMAIN before.layout.nodes |-> Drawn(before.layout.nodes[i])]
         /\ memo.edges = before.layout.edges
         /\ memo.width = before.layout.width
         /\ memo.height = before.layout.height

\* handleToggle has added the id of a drawn leaf to a set that held other
\* ids, and the layout has been computed again
C5_Witness ==
  /\ phase = "toggle2"
  /\ arg \notin ParentIds(heap)
  /\ arg \in IdsOf(heap)
  /\ arg \in collapsed
  /\ before.collapsed # {}
  /\ \E i \in DOMAIN memo.nodes : memo.nodes[i].id = arg

\* where a node of the output is placed
Placed(n) == [id |-> n.id, x |-> n.x, y |-> n.y, depth |-> n.depth]

\* C13 (irrelevant ids): two collapsed sets that differ in one id, which is
\* not the id of a node with children (a leaf's id, or an id the tree does
\* not have), give layouts with the same visible nodes, each at the same
\* x, y and depth, the same edges and the same bounding box.
C13_IrrelevantIdsIgnored ==
  (/\ phase = "toggle2"
   /\ arg \notin ParentIds(heap)
   /\ collapsed # before.collapsed
   /\ collapsed \ {arg} = before.collapsed \ {arg}) =>
    /\ memo.status = "ok"
    /\ Len(memo.nodes) = Len(before.layout.nodes)
    /\ {Placed(n) : n \in Range(memo.nodes)} =
         {Placed(n) : n \in Range(before.layout.nodes)}
    /\ Range(memo.edges) = Range(before.layout.edges)
    /\ Len(memo.edges) = Len(before.layout.edges)
    /\ <<memo.width, memo.height>> = <<before.layout.width, before.layout.height>>

\* the id of a drawn leaf has been removed from a set that keeps the id of
\* a drawn node with children, and the layout has been computed again
C13_Witness ==
  /\ phase = "toggle2"
  /\ arg \in IdsOf(heap) \ ParentIds(heap)
  /\ arg \in before.collapsed
  /\ collapsed = before.collapsed \ {arg}
  /\ \E n \in Range(memo.nodes) : n.id = arg /\ n.depth > 0
  /\ \E n \in Range(memo.nodes) : n.id \in collapsed /\ n.children # <<>>

----------------------------------------------------------------------------
(* SpecFetch: one call of fetchGeminiProxy(payload, type).  The proxy and  *)
(* the network are the environment: each request is answered by a response *)
(* of some status whose body is JSON or not, or fetch rejects.  call holds *)
(* the locals: i the loop index, response the last answer, waited the time *)
(* slept since that answer, requests the number of fetches issued.         *)

delays == <<1000, 2000, 4000, 8000, 16000>>

\* delays[i] of the code, whose indices start at 0
DelayAt(i) == delays[i + 1]

Rejected == [kind |-> "rejected"]

NoResponse == [kind |-> "none"]

Statuses == {200, 400, 429, 500}

\* what one fetch(url, ...) can settle with
Responses ==
  {Rejected} \cup
  {[kind |-> "response", status |-> st, json |-> js] :
     st \in Statuses, js \in BOOLEAN}

\* response.ok
Ok(response) == response.status >= 200 /\ response.status <= 299

ModelOf(type) ==
  IF type = "tts" THEN "gemini-2.5-flash-preview-tts"
  ELSE "gemini-2.5-flash-preview-09-2025"

InitFetch ==
  /\ heap = <<>>
  /\ data = Null
  /\ collapsed = {}
  /\ fresh = TRUE
  /\ memo = NoLayout
  /\ phase = "fetching"
  /\ arg = UnknownId
  /\ before = NoHistory
  /\ clean = TRUE
  /\ call \in {[pc |-> "fetch", model |-> ModelOf(type), i |-> 0, requests |-> 0,
                response |-> NoResponse, waited |-> 0, error |-> "none"] :
                 type \in {"text", "tts"}}

\* await fetch(url, {...}): the request leaves and is answered
SendRequest(resp) ==
  /\ call.pc = "fetch"
  /\ call' = [call EXCEPT !.pc = "respond", !.requests = @ + 1, !.response = resp]
  /\ UNCHANGED <<heap, data, collapsed, fresh, memo, phase, arg, before, clean>>

\* i++ and the loop test i <= delays.length
NextIteration(c, slept) ==
  [c EXCEPT !.i = @ + 1, !.waited = slept,
            !.pc = IF c.i + 1 <= Len(delays) THEN "fetch" ELSE "fellThrough"]

\* catch (error) { if (i === delays.length) throw error; }
Catch(c, error) ==
  IF c.i = Len(delays)
  THEN [c EXCEPT !.pc = "threw", !.error = error]
  ELSE NextIteration(c, 0)

\* the body of the try block from the settled fetch on, and the catch
HandleResponse(c) ==
  IF c.response = Rejected THEN Catch(c, "TypeError")
  ELSE IF ~Ok(c.response)
  THEN IF c.response.status >= 400 /\ c.response.status < 500
       THEN \* await response.json(), then throw new Error(...)
            IF c.response.json THEN Catch(c, "Client Error")
            ELSE Catch(c, "SyntaxError")
       ELSE IF c.response.status = 429 /\ c.i < Len(delays)
       THEN \* await the timeout of delays[i]; continue
            NextIteration(c, DelayAt(c.i))
       ELSE Catch(c, "API Error")
  ELSE \* const data = await response.json(); return data
       IF c.response.json THEN [c EXCEPT !.pc = "returned"]
       ELSE Catch(c, "SyntaxError")

Handle ==
  /\ call.pc = "respond"
  /\ call' = HandleResponse(call)
  /\ UNCHANGED <<heap, data, collapsed, fresh, memo, phase, arg, before, clean>>

NextFetch ==
  \/ \E resp \in Responses : SendRequest(resp)
  \/ Handle

SpecFetch == InitFetch /\ [][NextFetch]_vars

\* C16 (rate-limit backoff): a request that follows a 429 answer is sent
\* only after delays[i] has been waited, i the attempt the 429 answered;
\* at most 6 requests are made; the call ends by returning the body of an
\* ok response or by throwing the error of the last attempt.
C16_RateLimitBackoff ==
  /\ (/\ call.pc = "fetch"
      /\ call.response \in Responses \ {Rejected}
      /\ call.response.status = 429) => call.waited = DelayAt(call.i - 1)
  /\ call.pc # "none" => call.requests <= 6
  /\ call.pc = "returned" => (Ok(call.response) /\ call.response.json)
  /\ call.pc = "threw" => (call.requests = 6 /\ call.error # "none")
  /\ call.pc # "fellThrough"

=============================================================================
